---- MODULE Spec2Model ----
(***************************************************************************)
(* Journal routes of the AI-assisted daily journal server.                 *)
(*                                                                         *)
(* The repository holds two variants of routes/journal.js:                 *)
(*   "eager": src/Server/routes/journal.js  (genAI built at module load)   *)
(*   "lazy" : src/unnamed/part_003          (genAI built by initGenAI)     *)
(* The variable `variant` says which one the process runs.                 *)
(*                                                                         *)
(* Every await on the document store is one atomic step; a handler with    *)
(* two store operations (PUT, DELETE) is two steps and other requests may  *)
(* run between them.  The provider call of PUT lies between its read and   *)
(* its save and touches no shared state, so its reply is drawn in the save *)
(* step; so are the title and tags of the request body, which the handler  *)
(* first reads in the assignments before the save.                         *)
(***************************************************************************)
EXTENDS Integers, Sequences, FiniteSets, Bags, TLC

\* ---- bounds ----
MaxRequests == 2     \* requests the server receives in one run
MaxIds == 1          \* documents the collection ever holds (an _id is never reused)

\* ---- value domains ----
Users == {"u1", "u2"}

\* an optional request field: Absent (undefined) or Some(v)
Absent == <<>>
Some(v) == <<v>>

BodyTitles == {Absent, Some(""), Some("t2")}
BodyContents == {Absent, Some(""), Some(" "), Some("c1")}
BodyTags == {Absent, Some(<<>>), Some(<<"x">>)}
Bodies == [title : BodyTitles, content : BodyContents, tags : BodyTags]
EmptyBody == [title |-> Absent, content |-> Absent, tags |-> Absent]

\* models/Journal.js: enum of the mood path
MoodEnum == {"happy", "sad", "neutral", "excited", "anxious", "calm", "angry", "grateful"}

NoSummary == "No summary available"
Unavailable == "AI analysis unavailable"
Fallback == [summary |-> Unavailable, mood |-> "neutral"]
NoResult == [summary |-> "", mood |-> ""]

\* ---- JavaScript truthiness and || ----
\* a string operand: undefined and "" are falsy
TruthyStr(o) == o # Absent /\ o[1] # ""
\* an array operand: undefined is falsy, every array (also []) is truthy
TruthyArr(o) == o # Absent
OrStr(o, dflt) == IF TruthyStr(o) THEN o[1] ELSE dflt
OrArr(o, dflt) == IF TruthyArr(o) THEN o[1] ELSE dflt

\* String.prototype.trim on the strings of the model
Trim(s) == IF s = " " THEN "" ELSE s

\* ---- provider replies ----
\* A reply text is a sequence of segments: prose (brace-free text), a JSON
\* object {summary?, mood?}, or the JSON literal null.
Prose == [kind |-> "prose", summary |-> Absent, mood |-> Absent]
JsonNull == [kind |-> "null", summary |-> Absent, mood |-> Absent]
Obj(s, m) == [kind |-> "obj", summary |-> s, mood |-> m]
Happy == Obj(Some("s1"), Some("happy"))
Joyful == Obj(Some("s1"), Some("joyful"))
Bare == Obj(Absent, Absent)
Texts == {<<>>, <<Prose>>, <<JsonNull>>, <<Bare>>, <<Happy>>, <<Joyful>>,
          <<Prose, Happy, Prose>>, <<Happy, Prose, Bare>>}
Raise == [kind |-> "raise", text |-> <<>>]
Replies == {Raise} \cup {[kind |-> "text", text |-> t] : t \in Texts}
\* the replies the request handlers are run against
RouteReplies == {Raise} \cup {[kind |-> "text", text |-> t] :
                   t \in {<<Prose>>, <<Bare>>, <<Happy>>, <<Joyful>>, <<Prose, Happy, Prose>>}}

\* JSON.parse(text): succeeds iff the text is exactly one JSON value
ParseOk(text) == Len(text) = 1 /\ text[1].kind \in {"obj", "null"}

\* text.match(/\{[\s\S]*\}/): greedy, from the first "{" to the last "}"
ObjIdx(text) == {i \in 1..Len(text) : text[i].kind = "obj"}
Min(S) == CHOOSE x \in S : \A y \in S : x <= y
Max(S) == CHOOSE x \in S : \A y \in S : x >= y
Match(text) ==
  IF ObjIdx(text) = {} THEN <<>>
  ELSE SubSeq(text, Min(ObjIdx(text)), Max(ObjIdx(text)))

\* { summary: parsed.summary || '...', mood: parsed.mood || 'neutral' }
Defaults(parsed) ==
  [summary |-> OrStr(parsed.summary, NoSummary),
   mood |-> OrStr(parsed.mood, "neutral")]

\* journal.js 11-32: everything inside one try; any throw gives the fallback
analyzeEager(reply) ==
  IF reply.kind = "raise" THEN Fallback
  ELSE IF ~ParseOk(reply.text) THEN Fallback          \* JSON.parse throws
  ELSE IF reply.text[1].kind = "null" THEN Fallback   \* null.summary throws
  ELSE Defaults(reply.text[1])

\* part_003 62-71: parsed = {} unless a parse succeeds
parsedLazy(text) ==
  IF text = <<>> THEN Obj(Absent, Absent)
  ELSE IF ParseOk(text) THEN text[1]
  ELSE IF Match(text) # <<>> /\ ParseOk(Match(text)) THEN Match(text)[1]
  ELSE Obj(Absent, Absent)

\* part_003 28-80 once the guard of line 24 has passed
analyzeLazy(reply) ==
  IF reply.kind = "raise" THEN Fallback
  ELSE IF parsedLazy(reply.text).kind = "null" THEN Fallback
  ELSE Defaults(parsedLazy(reply.text))

\* part_003 10-20: the client after initGenAI() ran
initGenAI(client, key) == client \/ key

\* does analyzeWithAI(content) reach model.generateContent?
CallsProvider(v, client, key, content) ==
  IF v = "eager" THEN TRUE
  ELSE initGenAI(client, key) /\ TruthyStr(content)

\* the value analyzeWithAI resolves to, given whether the provider was called
Resolve(v, called, reply) ==
  IF ~called THEN Fallback
  ELSE IF v = "eager" THEN analyzeEager(reply)
  ELSE analyzeLazy(reply)

analyzeWithAI(v, client, key, content, reply) ==
  Resolve(v, CallsProvider(v, client, key, content), reply)

\* ---- the Journal collection (models/Journal.js) ----
\* createdAt (timestamps: true) is the time of creation; the model counts it in
\* documents created so far, which keeps the order of the creations
Fields == {"user", "title", "content", "tags", "aiSummary", "aiMood", "mood", "createdAt"}

\* required: true on a String path rejects undefined and ""
ValidTitle(t) == t # Absent /\ Trim(t[1]) # ""
ValidContent(c) == c # Absent /\ c[1] # ""
ValidMood(m) == m \in MoodEnum

\* Document#save sends $set of the paths whose value differs from the loaded one
Modified(doc, new) == {f \in Fields : new[f] # doc[f]}

\* validators that run on save for the modified paths
SaveValid(doc, new) ==
  /\ "title" \in Modified(doc, new) => new.title # ""
  /\ "content" \in Modified(doc, new) => new.content # ""
  /\ "mood" \in Modified(doc, new) => ValidMood(new.mood)

\* the stored document after the $set of the modified paths
Merge(stored, doc, new) ==
  [f \in Fields |-> IF f \in Modified(doc, new) THEN new[f] ELSE stored[f]]

VARIABLES
  variant,   \* which routes/journal.js runs: "eager" or "lazy"
  apiKey,    \* process.env.GEMINI_API_KEY is set
  genAI,     \* the module-level client exists
  Journal,   \* the collection: _id -> document
  nextId,    \* next fresh _id
  nreq,      \* requests received so far
  pending,   \* bag of PUT/DELETE requests suspended after their findById
  prov,      \* history: _id -> which enrichment call each stored field is from
  last,      \* history: the handler step taken last and its response
  arg,       \* the input of a function applied on its own (analytics, decoding)
  res,       \* the function applied last to arg and what it returned
  clock,     \* the browser's calendar date
  storage,   \* localStorage of each browser
  view       \* React state of each open tab

routeVars == <<variant, apiKey, genAI, Journal, nextId, nreq, pending, prov, last>>
fnVars == <<arg, res>>
clientVars == <<clock, storage, view>>
vars == <<routeVars, fnVars, clientVars>>

\* nothing applied yet / no browser open
NoRes == [fn |-> "none"]
IdleFn == arg = <<>> /\ res = NoRes
IdleClient == clock = 0 /\ storage = <<>> /\ view = <<>>

\* seen: the document findById returned to a PUT that went on to its save
NoDoc == [content |-> ""]

Step(op, phase, u, id, status, body, req, analyzed, called, ai, seen) ==
  [op |-> op, phase |-> phase, user |-> u, id |-> id, status |-> status,
   body |-> body, req |-> req, analyzed |-> analyzed, called |-> called, ai |-> ai,
   seen |-> seen]

NoStep == Step("none", "none", "u1", 0, 0, {}, EmptyBody, FALSE, FALSE, NoResult, NoDoc)

\* history keeps of a create request which of title and content it supplied
Supplied(body) ==
  [title |-> IF ValidTitle(body.title) THEN Some("t") ELSE Absent,
   content |-> body.content,
   tags |-> Absent]

\* what a response body shows of a document
View(id, doc) == [id |-> id, user |-> doc.user]

\* a document an earlier run of the server stored through router.post
InitDoc ==
  [user |-> "u1", title |-> "t1", content |-> "c1", tags |-> <<"x">>,
   aiSummary |-> Fallback.summary, aiMood |-> Fallback.mood, mood |-> Fallback.mood,
   createdAt |-> 1]

\* the process starts on an empty collection or on one holding InitDoc
Init ==
  /\ variant \in {"eager", "lazy"}
  /\ apiKey \in BOOLEAN
  /\ genAI = (variant = "eager")
  /\ \/ Journal = <<>> /\ prov = <<>> /\ nextId = 1
     \/ /\ Journal = (1 :> InitDoc)
        /\ prov = (1 :> [summary |-> [content |-> "c1", summary |-> Fallback.summary,
                                      mood |-> Fallback.mood],
                         mood |-> [content |-> "c1", summary |-> Fallback.summary,
                                   mood |-> Fallback.mood]])
        /\ nextId = 2
  /\ nreq = 0
  /\ pending = EmptyBag
  /\ last = NoStep
  /\ IdleFn /\ IdleClient

\* what generateContent can answer: without an API key the provider rejects the
\* call; when the provider is not called there is no answer to draw
Answers(called) == IF called /\ apiKey THEN RouteReplies ELSE {Raise}

\* a request arrives and its handler starts; ids a client can name: the ones
\* issued so far and one more
Receive == nreq < MaxRequests /\ nreq' = nreq + 1
Ids == 1..nextId

\* the module-level client after analyzeWithAI was entered
ClientAfter == IF variant = "lazy" THEN initGenAI(genAI, apiKey) ELSE genAI

\* variant of Owned: the find loses its user filter
OwnedAll(u) == DOMAIN Journal

\* Journal.find({ user: req.user._id })
Owned(u) == {j \in DOMAIN Journal : Journal[j].user = u}

\* router.get('/')
List(u) ==
  /\ last' = Step("list", "read", u, 0, 200, {View(i, Journal[i]) : i \in Owned(u)},
                  EmptyBody, FALSE, FALSE, NoResult, NoDoc)
  /\ UNCHANGED <<variant, apiKey, genAI, Journal, nextId, pending, prov>>

\* variant of Lookup: a document of another user is reported as missing
LookupHidesForeign(u, id) ==
  IF id \notin DOMAIN Journal THEN 404
  ELSE IF Journal[id].user # u THEN 404
  ELSE 0

\* the outcome of findById followed by the ownership check
Lookup(u, id) ==
  IF id \notin DOMAIN Journal THEN 404
  ELSE IF Journal[id].user # u THEN 403
  ELSE 0

\* router.get('/:id')
Get(u, id) ==
  /\ last' = IF Lookup(u, id) # 0
             THEN Step("get", "read", u, id, Lookup(u, id), {}, EmptyBody, FALSE, FALSE, NoResult, NoDoc)
             ELSE Step("get", "read", u, id, 200, {View(id, Journal[id])}, EmptyBody,
                       FALSE, FALSE, NoResult, NoDoc)
  /\ UNCHANGED <<variant, apiKey, genAI, Journal, nextId, pending, prov>>

\* the document Journal.create builds
NewDoc(u, body, ai) ==
  [user |-> u, title |-> Trim(body.title[1]), content |-> body.content[1],
   tags |-> OrArr(body.tags, <<>>),
   aiSummary |-> ai.summary, aiMood |-> ai.mood, mood |-> ai.mood,
   createdAt |-> nextId]

Source(content, ai) == [content |-> content, summary |-> ai.summary, mood |-> ai.mood]

\* router.post('/')
Create(u, body, reply) ==
  LET called == CallsProvider(variant, genAI, apiKey, body.content)
      ai == analyzeWithAI(variant, genAI, apiKey, body.content, reply)
      ok == ValidTitle(body.title) /\ ValidContent(body.content) /\ ValidMood(ai.mood)
  IN /\ nextId <= MaxIds
     /\ reply \in Answers(called)
     /\ genAI' = ClientAfter
     /\ IF ok
        THEN /\ Journal' = Journal @@ (nextId :> NewDoc(u, body, ai))
             /\ prov' = prov @@ (nextId :> [summary |-> Source(body.content[1], ai),
                                            mood |-> Source(body.content[1], ai)])
             /\ nextId' = nextId + 1
             /\ last' = Step("create", "write", u, nextId, 201,
                             {View(nextId, NewDoc(u, body, ai))}, Supplied(body), TRUE, called, ai, NoDoc)
        ELSE /\ last' = Step("create", "write", u, 0, 500, {}, Supplied(body), TRUE, called, ai, NoDoc)
             /\ UNCHANGED <<Journal, prov, nextId>>
     /\ UNCHANGED <<variant, apiKey, pending>>

\* variant of ContentChanged: re-analyses whenever content is supplied
ContentGiven(content, doc) == TruthyStr(content)

\* variant of ContentChanged: the truthiness test of content is lost
ContentDiffers(content, doc) == content # Some(doc.content)

\* line 109 of router.put: content && content !== journal.content
ContentChanged(content, doc) == TruthyStr(content) /\ content[1] # doc.content

\* router.put('/:id') up to the end of its findById: 404 / 403 before the body
\* is read, or the request goes on to (maybe) analyzeWithAI and is suspended
\* until its save
PutRead(u, id, content) ==
  /\ IF Lookup(u, id) # 0
     THEN /\ last' = Step("put", "read", u, id, Lookup(u, id), {},
                          EmptyBody, FALSE, FALSE, NoResult, NoDoc)
          /\ UNCHANGED <<genAI, pending>>
     ELSE LET doc == Journal[id]
              analyze == ContentChanged(content, doc)
              called == analyze /\ CallsProvider(variant, genAI, apiKey, content)
          IN /\ pending' = pending (+) SetToBag({
                              [op |-> "put", user |-> u, id |-> id, content |-> content,
                               doc |-> doc, analyzed |-> analyze, called |-> called]})
             /\ genAI' = IF analyze THEN ClientAfter ELSE genAI
             /\ last' = Step("put", "read", u, id, 0, {},
                             [EmptyBody EXCEPT !.content = content], analyze, called, NoResult, doc)
  /\ UNCHANGED <<variant, apiKey, Journal, nextId, prov>>

\* variant of Assigned: tags default to [] as in router.post
AssignedTagsReset(doc, body, ai) ==
  [user |-> doc.user,
   title |-> Trim(OrStr(body.title, doc.title)),
   content |-> OrStr(body.content, doc.content),
   tags |-> OrArr(body.tags, <<>>),
   aiSummary |-> ai.summary, aiMood |-> ai.mood, mood |-> ai.mood,
   createdAt |-> doc.createdAt]

\* variant of Assigned: the save stamps createdAt the way it stamps updatedAt
AssignedRestamped(doc, body, ai) ==
  [user |-> doc.user,
   title |-> Trim(OrStr(body.title, doc.title)),
   content |-> OrStr(body.content, doc.content),
   tags |-> OrArr(body.tags, doc.tags),
   aiSummary |-> ai.summary, aiMood |-> ai.mood, mood |-> ai.mood,
   createdAt |-> doc.createdAt + 1]

\* lines 108-118 of router.put: the in-memory document after the assignments
Assigned(doc, body, ai) ==
  [user |-> doc.user,
   title |-> Trim(OrStr(body.title, doc.title)),
   content |-> OrStr(body.content, doc.content),
   tags |-> OrArr(body.tags, doc.tags),
   aiSummary |-> ai.summary, aiMood |-> ai.mood, mood |-> ai.mood,
   createdAt |-> doc.createdAt]

\* history: a stored field that now carries the value of this call is from it
Attribute(old, stored, src) ==
  [summary |-> IF stored.aiSummary = src.summary THEN src ELSE old.summary,
   mood |-> IF stored.mood = src.mood THEN src ELSE old.mood]

\* router.put('/:id') from the provider reply to the response: journal.save()
PutSave(r, title, tags, reply) ==
  /\ r \in BagToSet(pending) /\ r.op = "put"
  /\ LET body == [title |-> title, content |-> r.content, tags |-> tags]
         ai == IF r.analyzed THEN Resolve(variant, r.called, reply)
               ELSE [summary |-> r.doc.aiSummary, mood |-> r.doc.aiMood]
         new == Assigned(r.doc, body, ai)
     IN /\ reply \in Answers(r.called)
        /\ IF SaveValid(r.doc, new) /\ r.id \in DOMAIN Journal
           THEN /\ Journal' = [Journal EXCEPT ![r.id] = Merge(@, r.doc, new)]
                /\ prov' = IF r.analyzed
                           THEN [prov EXCEPT ![r.id] =
                                   Attribute(@, Merge(Journal[r.id], r.doc, new),
                                             Source(new.content, ai))]
                           ELSE prov
                /\ last' = Step("put", "write", r.user, r.id, 200, {View(r.id, new)},
                                body, r.analyzed, r.called, ai, r.doc)
           ELSE /\ last' = Step("put", "write", r.user, r.id, 500, {},
                                body, r.analyzed, r.called, ai, r.doc)
                /\ UNCHANGED <<Journal, prov>>
  /\ pending' = pending (-) SetToBag({r})
  /\ UNCHANGED <<variant, apiKey, genAI, nextId, nreq>>

\* router.delete('/:id') up to the end of its findById
DeleteRead(u, id) ==
  /\ IF Lookup(u, id) # 0
     THEN /\ last' = Step("delete", "read", u, id, Lookup(u, id), {}, EmptyBody,
                          FALSE, FALSE, NoResult, NoDoc)
          /\ UNCHANGED pending
     ELSE /\ pending' = pending (+) SetToBag({[op |-> "delete", user |-> u, id |-> id]})
          /\ last' = Step("delete", "read", u, id, 0, {}, EmptyBody, FALSE, FALSE, NoResult, NoDoc)
  /\ UNCHANGED <<variant, apiKey, genAI, Journal, nextId, prov>>

Remove(f, id) == [i \in DOMAIN f \ {id} |-> f[i]]

\* router.delete('/:id'): journal.deleteOne() and the response
DeleteWrite(r) ==
  /\ r \in BagToSet(pending) /\ r.op = "delete"
  /\ Journal' = Remove(Journal, r.id)
  /\ prov' = Remove(prov, r.id)
  /\ last' = Step("delete", "write", r.user, r.id, 200, {}, EmptyBody,
                  FALSE, FALSE, NoResult, NoDoc)
  /\ pending' = pending (-) SetToBag({r})
  /\ UNCHANGED <<variant, apiKey, genAI, nextId, nreq>>

Next ==
  \/ Receive /\ (\E u \in Users : List(u)) /\ UNCHANGED <<fnVars, clientVars>>
  \/ Receive /\ (\E u \in Users, id \in Ids : Get(u, id)) /\ UNCHANGED <<fnVars, clientVars>>
  \/ /\ Receive
     /\ \E u \in Users, body \in Bodies, reply \in RouteReplies : Create(u, body, reply)
     /\ UNCHANGED <<fnVars, clientVars>>
  \/ /\ Receive
     /\ \E u \in Users, id \in Ids, content \in BodyContents : PutRead(u, id, content)
     /\ UNCHANGED <<fnVars, clientVars>>
  \/ /\ \E r \in BagToSet(pending), title \in BodyTitles, tags \in BodyTags, reply \in RouteReplies :
          PutSave(r, title, tags, reply)
     /\ UNCHANGED <<fnVars, clientVars>>
  \/ Receive /\ (\E u \in Users, id \in Ids : DeleteRead(u, id)) /\ UNCHANGED <<fnVars, clientVars>>
  \/ (\E r \in BagToSet(pending) : DeleteWrite(r)) /\ UNCHANGED <<fnVars, clientVars>>

Spec == Init /\ [][Next]_vars

(***************************************************************************)
(* Properties                                                              *)
(***************************************************************************)

\* the step taken last was the findById part of GET, PUT or DELETE on last.id;
\* such a step leaves the collection as it read it
IsLookup == last.phase = "read" /\ last.op \in {"get", "put", "delete"}

\* the step taken last was the save of a PUT / the store write of POST or PUT
IsPutSave == last.op = "put" /\ last.phase = "write"
IsWrite == last.phase = "write" /\ last.op \in {"create", "put"}

\* C1: GET, PUT and DELETE on an id answer 404 exactly when no journal with
\* that id is stored, and 403 exactly when it is stored and owned by another
\* user (never 404 for a stored journal).
C1_NotFoundVsForbidden ==
  IsLookup =>
    /\ (last.id \notin DOMAIN Journal) <=> (last.status = 404)
    /\ (last.id \in DOMAIN Journal /\ Journal[last.id].user # last.user)
         <=> (last.status = 403)

C1_Witness ==
  /\ IsLookup /\ last.status = 403
  /\ last.id \in DOMAIN Journal /\ Journal[last.id].user # last.user

\* C2, first half: a response never carries a journal of a user other than the
\* one it answers.
C2_NoLeak == \A v \in last.body : v.user = last.user

\* C2, second half: a handler step run for a user who does not own a stored
\* journal leaves that journal stored, every field unchanged.
C2_Frame ==
  \A id \in DOMAIN Journal :
    last'.user # Journal[id].user =>
      id \in DOMAIN Journal' /\ Journal'[id] = Journal[id]

\* C2: whatever list/GET/PUT/DELETE (and POST) requests users other than the
\* owner issue, the owner's journal stays stored unchanged and no response to
\* them contains it.
C2_OwnerExclusive == []C2_NoLeak /\ [][C2_Frame]_vars

C2_Witness ==
  /\ last.op = "list" /\ last.body = {}
  /\ \E id \in DOMAIN Journal : Journal[id].user # last.user

\* the stored summary and moods are those of the enrichment call src
SameResult(src, doc) ==
  src.summary = doc.aiSummary /\ src.mood = doc.mood /\ src.mood = doc.aiMood

\* C3: after a successful create and after a successful content-changed
\* update the stored journal has mood = aiMood, and its aiSummary, aiMood and
\* mood are those of one single enrichment result.
C3_SingleResult ==
  (IsWrite /\ last.analyzed /\ last.status \in {200, 201}) =>
    /\ last.id \in DOMAIN Journal
    /\ Journal[last.id].mood = Journal[last.id].aiMood
    /\ \/ SameResult(prov[last.id].summary, Journal[last.id])
       \/ SameResult(prov[last.id].mood, Journal[last.id])

\* the stored content, summary and moods are those of the enrichment call src
Matches(src, doc) == src.content = doc.content /\ SameResult(src, doc)

\* C4: in every state of every interleaving, each stored journal holds
\* aiSummary/aiMood/mood produced by one enrichment of exactly the content it
\* holds.
C4_EnrichedForStoredContent ==
  \A id \in DOMAIN Journal :
    Matches(prov[id].summary, Journal[id]) \/ Matches(prov[id].mood, Journal[id])

\* aiSummary, aiMood and mood of a document
AiFields(doc) == <<doc.aiSummary, doc.aiMood, doc.mood>>

\* C5: the save of an update whose content is absent, empty or equal to the
\* content the handler read leaves aiSummary, aiMood and mood of the stored
\* journal as they were; this holds for every such step, so for any number
\* of repetitions.
C5_UnchangedContentKeepsAI ==
  [][ (/\ last'.op = "put" /\ last'.phase = "write"
       /\ last'.id \in DOMAIN Journal
       /\ (~TruthyStr(last'.req.content) \/ last'.req.content = Some(last'.seen.content)))
      => (/\ last'.id \in DOMAIN Journal'
          /\ AiFields(Journal'[last'.id]) = AiFields(Journal[last'.id])) ]_vars

C5_Witness ==
  /\ IsPutSave /\ last.status = 200 /\ nreq = 2 /\ pending = EmptyBag
  /\ last.req.content = Some(last.seen.content)
  /\ last.id \in DOMAIN Journal /\ Journal[last.id].content = last.seen.content

\* C6: an update that finds its journal and owns it enters analyzeWithAI if
\* and only if its content is non-empty and not equal to the stored content;
\* an update answered 404 or 403 never does.
C6_AnalyzeIffContentChanged ==
  (last.op = "put" /\ last.phase = "read") =>
    (last.analyzed <=>
       /\ last.status = 0
       /\ last.req.content # Absent
       /\ last.req.content[1] # ""
       /\ last.req.content[1] # Journal[last.id].content)

C6_Witness ==
  /\ last.op = "put" /\ last.phase = "read" /\ last.analyzed
  /\ last.req.content = Some(" ")

\* the save of an update leaves field f of the stored journal unchanged
Keeps(f) == Journal'[last'.id][f] = Journal[last'.id][f]

PutSaveStep ==
  /\ last'.op = "put" /\ last'.phase = "write"
  /\ last'.id \in DOMAIN Journal /\ last'.id \in DOMAIN Journal'

\* C7 as claimed: each of title, content and tags that is absent or empty
\* (empty string, empty tag list) keeps its stored value.
C7_AbsentOrEmptyKeeps ==
  [][ PutSaveStep =>
        /\ ~TruthyStr(last'.req.title) => Keeps("title")
        /\ ~TruthyStr(last'.req.content) => Keeps("content")
        /\ last'.req.tags \in {Absent, Some(<<>>)} => Keeps("tags") ]_vars

\* C7 amended: title and content that are absent or the empty string, and
\* tags that are absent, keep their stored value independently of the other
\* fields; a supplied tag list, also the empty one, is a value like any other
\* and, when it differs from the tags the handler read, a successful save
\* stores it.
C7_AbsentKeepsTagsReplace ==
  [][ PutSaveStep =>
        /\ ~TruthyStr(last'.req.title) => Keeps("title")
        /\ ~TruthyStr(last'.req.content) => Keeps("content")
        /\ last'.req.tags = Absent => Keeps("tags")
        /\ (/\ last'.req.tags # Absent /\ last'.status = 200
            /\ last'.req.tags[1] # last'.seen.tags)
             => Journal'[last'.id].tags = last'.req.tags[1] ]_vars

C7_Witness ==
  /\ IsPutSave /\ last.status = 200
  /\ last.req.title = Some("") /\ last.req.tags = Some(<<>>)
  /\ TruthyStr(last.req.content) /\ last.req.content # Some(last.seen.content)
  /\ last.id \in DOMAIN Journal
  /\ last.seen.tags = <<"x">>
  /\ Journal[last.id].title = "t1" /\ Journal[last.id].tags = <<>>
  /\ Journal[last.id].content = last.req.content[1]

\* C8: whatever the provider answers, a create with valid title and content
\* is acknowledged 201, and the save of an owner's update whose journal is
\* still stored is acknowledged 200.
C8_EnrichmentNeverFails ==
  /\ (last.op = "create" /\ last.req.title # Absent /\ ValidContent(last.req.content))
       => last.status = 201
  /\ (IsPutSave /\ last.id \in DOMAIN Journal) => last.status = 200

\* C9: a decoded mood outside the enum is stored as neutral, and no stored
\* journal ever has a mood or aiMood outside the enum.
C9_InvalidMoodStoredNeutral ==
  /\ (/\ IsWrite /\ last.called /\ ~ValidMood(last.ai.mood)
      /\ last.op = "create" => (last.req.title # Absent /\ ValidContent(last.req.content)))
       => /\ last.status \in {200, 201}
          /\ last.id \in DOMAIN Journal
          /\ Journal[last.id].mood = "neutral"
  /\ \A id \in DOMAIN Journal :
       ValidMood(Journal[id].mood) /\ ValidMood(Journal[id].aiMood)

\* C10: analyzeWithAI entered with empty or whitespace-only content makes no
\* provider call and returns the fallback.
C10_BlankContentNoCall ==
  (IsWrite /\ last.analyzed /\ last.req.content \in {Some(""), Some(" ")}) =>
    /\ ~last.called
    /\ last.ai = Fallback

\* the status every handler's catch block answers when the store raises
StoreFailure == 500

\* C12: a create whose title or content is missing or empty stores no journal
\* and is answered with an outcome other than the one of a store failure.
C12_ValidationFailureDistinct ==
  [][ (/\ last'.op = "create"
       /\ ~(last'.req.title # Absent /\ ValidContent(last'.req.content)))
      => (Journal' = Journal /\ last'.status # StoreFailure) ]_vars

(***************************************************************************)
(* analyzeWithAI applied on its own to every reply text                    *)
(***************************************************************************)

\* the routes at rest: an empty collection and no request received
RoutesIdle ==
  /\ Journal = <<>> /\ prov = <<>> /\ nextId = 1
  /\ nreq = 0 /\ pending = EmptyBag /\ last = NoStep

\* content and the text generateContent answers with; without an API key the
\* provider rejects the call
InitAnalyze ==
  /\ variant \in {"eager", "lazy"}
  /\ apiKey \in BOOLEAN
  /\ genAI = (variant = "eager")
  /\ RoutesIdle
  /\ arg \in [content : BodyContents, reply : Replies]
  /\ apiKey \/ arg.reply = Raise
  /\ res = NoRes
  /\ IdleClient

\* one call of analyzeWithAI(content)
Analyze ==
  /\ res = NoRes
  /\ res' = [fn |-> "analyzeWithAI",
             called |-> CallsProvider(variant, genAI, apiKey, arg.content),
             out |-> analyzeWithAI(variant, genAI, apiKey, arg.content, arg.reply)]
  /\ genAI' = ClientAfter
  /\ UNCHANGED <<variant, apiKey, Journal, nextId, nreq, pending, prov, last, arg, clientVars>>

NextAnalyze == Analyze

SpecAnalyze == InitAnalyze /\ [][NextAnalyze]_vars

\* the reply text is no JSON value and holds no JSON object
Undecodable(text) == ~ParseOk(text) /\ ObjIdx(text) = {}

\* C11: when the provider call raises, or its reply can be decoded neither
\* strictly nor by extracting an embedded JSON object, analyzeWithAI returns
\* exactly the fallback {summary: 'AI analysis unavailable', mood: 'neutral'}.
C11_UndecodableGivesFallback ==
  (/\ res # NoRes /\ res.called
   /\ (arg.reply.kind = "raise" \/ Undecodable(arg.reply.text)))
    => res.out = Fallback

(***************************************************************************)
(* The writing streak: GET /stats/streak of both route variants and        *)
(* calculateStreak of the web client                                       *)
(*                                                                         *)
(* Calendar days are integers, 0 is today and -k is k days ago.  A Date is *)
(* a count of hours; setHours(0,0,0,0) takes it to the local midnight of   *)
(* its day, and local midnights are 24 h apart except across a change of   *)
(* the local clock (daylight saving time), where it is 23 h or 25 h.       *)
(***************************************************************************)
MaxAgo == 3          \* the oldest entry is this many days old
MaxEntries == 3      \* entries of the user

Days == (0 - MaxAgo)..0

\* the local clock: no change, or one change during day `at`
Clocks ==
  {[kind |-> "none", at |-> 0]}
    \cup [kind : {"spring", "fall"}, at : (0 - MaxAgo)..(0 - 1)]

\* new Date(createdAt).setHours(0, 0, 0, 0) for an entry of day d, in hours
Midnight(tz, d) ==
  24 * d + (IF d > tz.at /\ tz.kind = "spring" THEN 0 - 1
            ELSE IF d > tz.at /\ tz.kind = "fall" THEN 1
            ELSE 0)

\* Math.floor((a - b) / (1000 * 60 * 60 * 24)) of two local midnights
DaysDiff(tz, a, b) == (Midnight(tz, a) - Midnight(tz, b)) \div 24

\* .sort({ createdAt: -1 }) / sort((a, b) => new Date(b.createdAt) - new Date(a.createdAt))
RECURSIVE InsertDesc(_, _)
InsertDesc(x, s) ==
  IF s = <<>> THEN <<x>>
  ELSE IF x >= Head(s) THEN <<x>> \o s
  ELSE <<Head(s)>> \o InsertDesc(x, Tail(s))

RECURSIVE SortDesc(_)
SortDesc(s) == IF s = <<>> THEN <<>> ELSE InsertDesc(Head(s), SortDesc(Tail(s)))

\* journal.js 214-227: the loop from index i, counting steps of exactly one day
RECURSIVE LoopEager(_, _, _)
LoopEager(tz, s, i) ==
  IF i >= Len(s) THEN 0
  ELSE IF DaysDiff(tz, s[i], s[i + 1]) = 1 THEN 1 + LoopEager(tz, s, i + 1)
  ELSE 0

\* journal.js 192-234: GET /stats/streak
streakEager(tz, days) ==
  IF Len(days) = 0 THEN 0
  ELSE IF DaysDiff(tz, 0, SortDesc(days)[1]) > 1 THEN 0
  ELSE 1 + LoopEager(tz, SortDesc(days), 1)

\* part_003 129-142: the loop from index i with the cursor on day `cursor`
RECURSIVE LoopLazy(_, _, _, _)
LoopLazy(tz, s, i, cursor) ==
  IF i > Len(s) THEN 0
  ELSE IF DaysDiff(tz, cursor, s[i]) \in {0, 1}
       THEN 1 + LoopLazy(tz, s, i + 1, s[i] - 1)
  ELSE 0

\* variant of streakLazy: the streak is nonzero only with an entry today
streakLazyFromToday(tz, days) ==
  IF Len(days) = 0 THEN 0
  ELSE IF SortDesc(days)[1] # 0 THEN 0
  ELSE LoopLazy(tz, SortDesc(days), 1, 0)

\* part_003 120-147: GET /stats/streak
streakLazy(tz, days) ==
  IF Len(days) = 0 THEN 0 ELSE LoopLazy(tz, SortDesc(days), 1, 0)

\* App.jsx 177-190: the loop of calculateStreak
RECURSIVE LoopClient(_, _, _)
LoopClient(tz, s, i) ==
  IF i >= Len(s) THEN 0
  ELSE IF DaysDiff(tz, s[i], s[i + 1]) = 1 THEN 1 + LoopClient(tz, s, i + 1)
  ELSE 0

\* App.jsx 153-193: calculateStreak
calculateStreak(tz, days) ==
  IF Len(days) = 0 THEN 0
  ELSE IF DaysDiff(tz, 0, SortDesc(days)[1]) > 1 THEN 0
  ELSE 1 + LoopClient(tz, SortDesc(days), 1)

\* the calendar days of the user's entries, in the order the store holds
\* them, and the local clock
InitStreak ==
  /\ variant = "eager" /\ apiKey = FALSE /\ genAI = TRUE
  /\ RoutesIdle
  /\ arg \in [days : UNION {[1..n -> Days] : n \in 0..MaxEntries}, tz : Clocks]
  /\ res = NoRes
  /\ IdleClient

StreakEager ==
  /\ res = NoRes
  /\ res' = [fn |-> "streakEager", out |-> streakEager(arg.tz, arg.days)]
  /\ UNCHANGED <<routeVars, arg, clientVars>>

StreakLazy ==
  /\ res = NoRes
  /\ res' = [fn |-> "streakLazy", out |-> streakLazy(arg.tz, arg.days)]
  /\ UNCHANGED <<routeVars, arg, clientVars>>

StreakClient ==
  /\ res = NoRes
  /\ res' = [fn |-> "calculateStreak", out |-> calculateStreak(arg.tz, arg.days)]
  /\ UNCHANGED <<routeVars, arg, clientVars>>

NextStreak == StreakEager \/ StreakLazy \/ StreakClient

SpecStreak == InitStreak /\ [][NextStreak]_vars

\* the day of the most recent entry
Recent(days) == SortDesc(days)[1]

\* C13: the streak is 0 when the user has no entries and when the most recent
\* entry's day is 2 or more days before today; it is at least 1 when that day
\* is today or yesterday.
C13_StreakStart ==
  res # NoRes =>
    /\ Len(arg.days) = 0 => res.out = 0
    /\ (Len(arg.days) > 0 /\ Recent(arg.days) <= 0 - 2) => res.out = 0
    /\ (Len(arg.days) > 0 /\ Recent(arg.days) >= 0 - 1) => res.out >= 1

\* the number of consecutive calendar days with an entry, walking back from d
RECURSIVE RunFrom(_, _)
RunFrom(S, d) == IF d \in S THEN 1 + RunFrom(S, d - 1) ELSE 0

\* C14: when the most recent entry's day is today or yesterday, the streak is
\* the number of distinct calendar days in the run that starts at that day
\* and walks back one day at a time: entries of the same day count once and
\* do not end the run, the first gap of more than one day ends it.
C14_StreakIsRunOfDays ==
  (res # NoRes /\ Len(arg.days) > 0 /\ Recent(arg.days) >= 0 - 1) =>
    res.out = RunFrom({arg.days[i] : i \in 1..Len(arg.days)}, Recent(arg.days))

\* C13 holds where the local clock never changes
C13_NoClockChange == arg.tz.kind = "none" => C13_StreakStart

(***************************************************************************)
(* calculateAchievements of the web client                                 *)
(***************************************************************************)
MaxCount == 31       \* journals.length and the streak go up to this

\* the moods the loaded journals can carry
UsedMoods == {"happy", "sad", "excited", "calm", "neutral"}

RuleIf(holds, name) == IF holds THEN <<name>> ELSE <<>>

\* variant of calculateAchievements: "Getting Started" needs more than 5 entries
calculateAchievementsLate(count, streak, moods) ==
  RuleIf(count >= 1, "First Entry")
    \o RuleIf(count > 5, "Getting Started")
    \o RuleIf(count >= 10, "Dedicated Writer")
    \o RuleIf(count >= 30, "Journal Master")
    \o RuleIf(streak >= 3, "3 Day Streak")
    \o RuleIf(streak >= 7, "Week Warrior")
    \o RuleIf(streak >= 30, "Monthly Legend")
    \o RuleIf({"happy", "sad", "excited", "calm"} \subseteq moods, "Emotion Explorer")

\* App.jsx 196-213: the pushes to newAchievements, for journals.length = count,
\* the streak state and the set of j.mood over the journals
calculateAchievements(count, streak, moods) ==
  RuleIf(count >= 1, "First Entry")
    \o RuleIf(count >= 5, "Getting Started")
    \o RuleIf(count >= 10, "Dedicated Writer")
    \o RuleIf(count >= 30, "Journal Master")
    \o RuleIf(streak >= 3, "3 Day Streak")
    \o RuleIf(streak >= 7, "Week Warrior")
    \o RuleIf(streak >= 30, "Monthly Legend")
    \o RuleIf({"happy", "sad", "excited", "calm"} \subseteq moods, "Emotion Explorer")

\* the journals array by its length and moods, and the streak state
InitAchievements ==
  /\ variant = "eager" /\ apiKey = FALSE /\ genAI = TRUE
  /\ RoutesIdle
  /\ arg \in [count : 0..MaxCount, streak : 0..MaxCount, moods : SUBSET UsedMoods]
  /\ Cardinality(arg.moods) <= arg.count
  /\ arg.count > 0 => arg.moods # {}
  /\ res = NoRes
  /\ IdleClient

Achievements ==
  /\ res = NoRes
  /\ res' = [fn |-> "calculateAchievements",
             out |-> calculateAchievements(arg.count, arg.streak, arg.moods)]
  /\ UNCHANGED <<routeVars, arg, clientVars>>

NextAchievements == Achievements

SpecAchievements == InitAchievements /\ [][NextAchievements]_vars

\* the table of rules, each with whether its condition holds for a
Rules(a) ==
  << [name |-> "First Entry", holds |-> a.count >= 1],
     [name |-> "Getting Started", holds |-> a.count >= 5],
     [name |-> "Dedicated Writer", holds |-> a.count >= 10],
     [name |-> "Journal Master", holds |-> a.count >= 30],
     [name |-> "3 Day Streak", holds |-> a.streak >= 3],
     [name |-> "Week Warrior", holds |-> a.streak >= 7],
     [name |-> "Monthly Legend", holds |-> a.streak >= 30],
     [name |-> "Emotion Explorer",
      holds |-> \A m \in {"happy", "sad", "excited", "calm"} : m \in a.moods] >>

\* the indices of the rules that hold, and the k-th smallest of them
Holding(a) == {i \in 1..Len(Rules(a)) : Rules(a)[i].holds}
Kth(S, k) == CHOOSE i \in S : Cardinality({j \in S : j < i}) = k - 1

\* C15: for every entry count, streak and set of moods used, the achievement
\* list is exactly the names of the table rules whose condition holds, in
\* table order.
C15_AchievementsAreTableRules ==
  res # NoRes =>
    /\ Len(res.out) = Cardinality(Holding(arg))
    /\ \A k \in 1..Len(res.out) : res.out[k] = Rules(arg)[Kth(Holding(arg), k)].name

C15_Witness ==
  /\ res # NoRes /\ arg.count = 5 /\ arg.streak = 2
  /\ ~({"happy", "sad", "excited", "calm"} \subseteq arg.moods)
  /\ res.out = <<"First Entry", "Getting Started">>

(***************************************************************************)
(* GET /stats/weekly and GET /stats/moods                                  *)
(*                                                                         *)
(* A createdAt is a count of hours in UTC; hour 0 is a midnight.           *)
(***************************************************************************)
MaxStored == 2       \* journals in the collection

\* the moods and the ages in hours (now - createdAt) of the stored journals
StatMoods == {"happy", "neutral"}
Ages == {0, 24, 7 * 24, 7 * 24 + 1}
Nows == {9 * 24, 9 * 24 + 11}

\* hours the local clock was put forward (+1) or back (-1) in the last 7 days
ClockChanges == {0 - 1, 0, 1}

\* a stored journal with the paths the statistics read
StatDoc(u, m, t) ==
  [user |-> u, title |-> "t1", content |-> "c1", tags |-> <<>>,
   aiSummary |-> NoSummary, aiMood |-> m, mood |-> m, createdAt |-> t]

\* sevenDaysAgo.setDate(sevenDaysAgo.getDate() - 7): the same local time of
\* day, 7 calendar days earlier
sevenDaysAgo(now, change) == now - 7 * 24 + change

\* createdAt.toISOString().split('T')[0]: the UTC date, as a day number
IsoDate(t) == t \div 24

\* journal.js 155-166: the find with $gte and the grouping by date
weeklyStats(u, now, change) ==
  LET journals == {i \in Owned(u) : Journal[i].createdAt >= sevenDaysAgo(now, change)}
  IN [d \in {IsoDate(Journal[i].createdAt) : i \in journals} |->
        Cardinality({i \in journals : IsoDate(Journal[i].createdAt) = d})]

\* the key a journal is counted under: journal.mood (journal.js 180), or
\* j.mood || j.aiMood || 'neutral' (part_003 110)
MoodKey(v, doc) ==
  IF v = "eager" THEN doc.mood
  ELSE IF doc.mood # "" THEN doc.mood
  ELSE IF doc.aiMood # "" THEN doc.aiMood
  ELSE "neutral"

\* variant of moodCount: every mood of the enum gets a key
moodCountZeroFilled(v, u) ==
  [m \in MoodEnum |-> Cardinality({i \in Owned(u) : MoodKey(v, Journal[i]) = m})]

\* journal.js 177-183 / part_003 108-113: the reduce over the user's journals
moodCount(v, u) ==
  [m \in {MoodKey(v, Journal[i]) : i \in Owned(u)} |->
     Cardinality({i \in Owned(u) : MoodKey(v, Journal[i]) = m})]

\* a collection of up to MaxStored journals, the time of the request and the
\* local clock
InitStats ==
  /\ variant \in {"eager", "lazy"}
  /\ apiKey = FALSE
  /\ genAI = (variant = "eager")
  /\ \E n \in 0..MaxStored :
       /\ nextId = n + 1
       /\ \E now \in Nows, change \in ClockChanges :
            /\ arg = [now |-> now, change |-> change]
            /\ Journal \in [1..n -> {StatDoc(u, m, now - a) :
                                       u \in Users, m \in StatMoods, a \in Ages}]
  /\ prov = <<>> /\ nreq = 0 /\ pending = EmptyBag /\ last = NoStep
  /\ res = NoRes
  /\ IdleClient

\* router.get('/stats/weekly')
Weekly(u) ==
  /\ res = NoRes
  /\ res' = [fn |-> "weekly", user |-> u, out |-> weeklyStats(u, arg.now, arg.change)]
  /\ UNCHANGED <<routeVars, arg, clientVars>>

\* router.get('/stats/moods')
Moods(u) ==
  /\ res = NoRes
  /\ res' = [fn |-> "moods", user |-> u, out |-> moodCount(variant, u)]
  /\ UNCHANGED <<routeVars, arg, clientVars>>

NextStats ==
  \/ \E u \in Users : Weekly(u)
  \/ \E u \in Users : Moods(u)

SpecStats == InitStats /\ [][NextStats]_vars

\* the caller's journals, and those created in the trailing 7 days: after
\* now - 7 x 24 h and up to now
Mine == {i \in DOMAIN Journal : Journal[i].user = res.user}
InWindow == {i \in Mine : Journal[i].createdAt > arg.now - 7 * 24
                           /\ Journal[i].createdAt <= arg.now}

\* C16: the weekly aggregate maps each date to the number of the caller's
\* entries created on it within the trailing 7 days (an entry created now
\* counts, one created exactly 7 x 24 h before now does not); no key has
\* count 0 and the counts sum to the caller's entries in the window.
C16_WeeklyWindow ==
  (res # NoRes /\ res.fn = "weekly") =>
    /\ DOMAIN res.out = {IsoDate(Journal[i].createdAt) : i \in InWindow}
    /\ \A d \in DOMAIN res.out :
         /\ res.out[d] = Cardinality({i \in InWindow : IsoDate(Journal[i].createdAt) = d})
         /\ res.out[d] > 0

\* the sum of the counts of a mapping
RECURSIVE SumOf(_)
SumOf(f) ==
  IF DOMAIN f = {} THEN 0
  ELSE LET k == CHOOSE x \in DOMAIN f : TRUE
       IN f[k] + SumOf([x \in DOMAIN f \ {k} |-> f[x]])

\* C18: the mood distribution maps each mood to the number of the caller's
\* journals having it, other users' journals excluded: it is the empty mapping
\* when the caller has none, has no zero-count key, and its counts sum to the
\* number of the caller's journals.
C18_MoodDistribution ==
  (res # NoRes /\ res.fn = "moods") =>
    /\ \A m \in DOMAIN res.out :
         /\ res.out[m] = Cardinality({i \in Mine : Journal[i].mood = m})
         /\ res.out[m] > 0
    /\ \A i \in Mine : Journal[i].mood \in DOMAIN res.out
    /\ Mine = {} => res.out = <<>>
    /\ SumOf(res.out) = Cardinality(Mine)

C18_Witness ==
  /\ res # NoRes /\ res.fn = "moods"
  /\ Cardinality(Mine) = 1 /\ DOMAIN res.out = {"happy"}
  /\ res.out["happy"] = 1
  /\ \E i \in DOMAIN Journal : Journal[i].user # res.user /\ Journal[i].mood = "neutral"

(***************************************************************************)
(* weeklyData of the Dashboard                                             *)
(***************************************************************************)

\* the local calendar days of the loaded journals: today back to 7 days ago
LoadedDays == (0 - 7)..0

\* variant of weeklyData: the slots run from today back to 6 days ago
weeklyDataNewestFirst(days) ==
  [i \in 1..7 |->
     [day |-> 0 - (i - 1),
      entries |-> Cardinality({k \in 1..Len(days) : days[k] = 0 - (i - 1)})]]

\* App.jsx 646-655: Array.from({length: 7}, (_, i) => ...), slot i + 1 here;
\* date is today - (6 - i) and toDateString() is compared with each journal's
weeklyData(days) ==
  [i \in 1..7 |->
     [day |-> 0 - (7 - i),
      entries |-> Cardinality({k \in 1..Len(days) : days[k] = 0 - (7 - i)})]]

InitWeeklyData ==
  /\ variant = "eager" /\ apiKey = FALSE /\ genAI = TRUE
  /\ RoutesIdle
  /\ arg \in [days : UNION {[1..n -> LoadedDays] : n \in 0..MaxEntries}]
  /\ res = NoRes
  /\ IdleClient

WeeklyData ==
  /\ res = NoRes
  /\ res' = [fn |-> "weeklyData", out |-> weeklyData(arg.days)]
  /\ UNCHANGED <<routeVars, arg, clientVars>>

NextWeeklyData == WeeklyData

SpecWeeklyData == InitWeeklyData /\ [][NextWeeklyData]_vars

\* the number of loaded entries whose calendar day is k days before today
EntriesOn(k) == Cardinality({j \in 1..Len(arg.days) : arg.days[j] = 0 - k})

\* C17: the client weekly series has exactly 7 slots, one per calendar day
\* from 6 days ago to today in that order; the slot of day -k holds the number
\* of loaded entries of that day, 0 when there is none.
C17_SevenSlotSeries ==
  res # NoRes =>
    /\ Len(res.out) = 7
    /\ \A k \in 0..6 :
         /\ res.out[7 - k].day = 0 - k
         /\ res.out[7 - k].entries = EntriesOn(k)

C17_Witness ==
  /\ res # NoRes /\ arg.days = <<0 - 1, 0 - 1, 0 - 3>>
  /\ res.out[6].entries = 2 /\ res.out[4].entries = 1
  /\ \A i \in {1, 2, 3, 5, 7} : res.out[i].entries = 0

(***************************************************************************)
(* The daily question and the daily challenge of the web client            *)
(*                                                                         *)
(* A tab is one running instance of the app; the tabs of one browser share *)
(* its localStorage.  The calendar date (toDateString) is an integer.      *)
(***************************************************************************)
MaxDate == 1         \* the calendar date runs from 0 to this

\* App.jsx 72-78, each question by its type
DAILY_QUESTIONS == <<"history", "fun", "birthday", "invention", "trivia">>

\* what the user types into the textarea
Typed == {" ", "x", "y"}

\* two tabs of browser a, or one tab each of browsers a and b
TabSets == {{"a1", "a2"}, {"a1", "b1"}}
BrowserOf(t) == IF t = "b1" THEN "b" ELSE "a"

\* an empty localStorage (answeredBy is history: whose session stored the
\* answer); the React state of a tab whose challenge view is not mounted
NoItems ==
  [token |-> Absent, dailyQuestionDate |-> Absent, dailyQuestion |-> Absent,
   dailyChallengeAnswer |-> Absent, dailyChallengeDate |-> Absent, answeredBy |-> Absent]
Page(token, question) ==
  [token |-> token, dailyQuestion |-> question,
   game |-> FALSE, answer |-> "", submitted |-> FALSE]

\* fresh browsers, every tab on the AuthPage
InitClient ==
  /\ variant = "eager" /\ apiKey = FALSE /\ genAI = TRUE
  /\ RoutesIdle
  /\ IdleFn
  /\ clock = 0
  /\ \E tabs \in TabSets :
       /\ view = [t \in tabs |-> Page(Absent, Absent)]
       /\ storage = [b \in {BrowserOf(t) : t \in tabs} |-> NoItems]

\* App.jsx 135-151 on the items st of localStorage: the items it leaves and
\* the dailyQuestion state; q is the question Math.random() points at
loadDailyContent(st, q) ==
  IF st.dailyQuestionDate # Some(clock)
  THEN [items |-> [st EXCEPT !.dailyQuestionDate = Some(clock), !.dailyQuestion = Some(q)],
        dailyQuestion |-> Some(q)]
  ELSE [items |-> st, dailyQuestion |-> st.dailyQuestion]

\* the token effect (App.jsx 121-126) of a tab whose token became u
TokenEffect(t, u, q) ==
  LET b == BrowserOf(t)
      r == loadDailyContent([storage[b] EXCEPT !.token = Some(u)], q)
  IN /\ storage[b].dailyQuestionDate = Some(clock) => q = DAILY_QUESTIONS[1]
     /\ storage' = [storage EXCEPT ![b] = r.items]
     /\ view' = [view EXCEPT ![t] = Page(Some(u), r.dailyQuestion)]

\* App.jsx 215-231 (and register 233-249): a successful login of user u
login(t, u, q) ==
  /\ t \in DOMAIN view /\ view[t].token = Absent
  /\ TokenEffect(t, u, q)
  /\ UNCHANGED <<routeVars, fnVars, clock>>

\* the page is (re)loaded: App.jsx 107 takes the token from localStorage
PageLoad(t, q) ==
  /\ t \in DOMAIN view
  /\ IF storage[BrowserOf(t)].token # Absent
     THEN TokenEffect(t, storage[BrowserOf(t)].token[1], q)
     ELSE /\ q = DAILY_QUESTIONS[1]
          /\ view' = [view EXCEPT ![t] = Page(Absent, Absent)]
          /\ UNCHANGED storage
  /\ UNCHANGED <<routeVars, fnVars, clock>>

\* App.jsx 251-258: dailyQuestion and the challenge items are left as they are;
\* the Dashboard and with it DailyChallenge unmount (App.jsx 1244)
logout(t) ==
  /\ t \in DOMAIN view /\ view[t].token # Absent
  /\ view' = [view EXCEPT ![t] = Page(Absent, @.dailyQuestion)]
  /\ storage' = [storage EXCEPT ![BrowserOf(t)].token = Absent]
  /\ UNCHANGED <<routeVars, fnVars, clock>>

\* App.jsx 521-532: the effect of DailyChallenge when the game view mounts
OpenChallenge(t) ==
  LET st == storage[BrowserOf(t)]
  IN /\ t \in DOMAIN view
     /\ view[t].token # Absent /\ ~view[t].game
     /\ view' = [view EXCEPT ![t] =
                   IF TruthyStr(st.dailyChallengeAnswer) /\ st.dailyChallengeDate = Some(clock)
                   THEN [@ EXCEPT !.game = TRUE, !.answer = st.dailyChallengeAnswer[1],
                                  !.submitted = TRUE]
                   ELSE [@ EXCEPT !.game = TRUE, !.answer = "", !.submitted = FALSE]]
     /\ UNCHANGED <<routeVars, fnVars, clock, storage>>

\* the user leaves the game view: DailyChallenge unmounts and its state is gone
CloseChallenge(t) ==
  /\ t \in DOMAIN view /\ view[t].game
  /\ view' = [view EXCEPT ![t] = Page(@.token, @.dailyQuestion)]
  /\ UNCHANGED <<routeVars, fnVars, clock, storage>>

\* App.jsx 565-569: onChange of the textarea, rendered while !submitted
TypeAnswer(t, text) ==
  /\ t \in DOMAIN view /\ view[t].game /\ ~view[t].submitted
  /\ view' = [view EXCEPT ![t].answer = text]
  /\ UNCHANGED <<routeVars, fnVars, clock, storage>>

\* App.jsx 534-540: handleSubmit, by the button rendered while !submitted and
\* enabled while answer.trim() is not empty
handleSubmit(t) ==
  /\ t \in DOMAIN view /\ view[t].game /\ ~view[t].submitted
  /\ Trim(view[t].answer) # ""
  /\ storage' = [storage EXCEPT ![BrowserOf(t)].dailyChallengeAnswer = Some(view[t].answer),
                                 ![BrowserOf(t)].dailyChallengeDate = Some(clock),
                                 ![BrowserOf(t)].answeredBy = view[t].token]
  /\ view' = [view EXCEPT ![t].submitted = TRUE]
  /\ UNCHANGED <<routeVars, fnVars, clock>>

\* midnight passes
NextDay ==
  /\ clock < MaxDate
  /\ clock' = clock + 1
  /\ UNCHANGED <<routeVars, fnVars, storage, view>>

NextClient ==
  \/ \E t \in {"a1", "a2", "b1"}, u \in Users, i \in 1..Len(DAILY_QUESTIONS) :
       login(t, u, DAILY_QUESTIONS[i])
  \/ \E t \in {"a1", "a2", "b1"}, i \in 1..Len(DAILY_QUESTIONS) :
       PageLoad(t, DAILY_QUESTIONS[i])
  \/ \E t \in {"a1", "a2", "b1"} : logout(t)
  \/ \E t \in {"a1", "a2", "b1"} : OpenChallenge(t)
  \/ \E t \in {"a1", "a2", "b1"} : CloseChallenge(t)
  \/ \E t \in {"a1", "a2", "b1"}, text \in Typed : TypeAnswer(t, text)
  \/ \E t \in {"a1", "a2", "b1"} : handleSubmit(t)
  \/ NextDay

SpecClient == InitClient /\ [][NextClient]_vars

\* C19: the daily question is a function of the calendar date: two loads on
\* the same date, also from two browsers with separate local storage, select
\* the same question.
C19_SameDateSameQuestion ==
  \A a, b \in DOMAIN storage :
    (storage[a].dailyQuestionDate # Absent
       /\ storage[a].dailyQuestionDate = storage[b].dailyQuestionDate)
      => storage[a].dailyQuestion = storage[b].dailyQuestion

\* C19, second half: a stored question is replaced only when the calendar
\* date differs from the stored date.
C19_ReplacedOnlyOnNewDate ==
  [][ \A b \in DOMAIN storage :
        storage'[b].dailyQuestion # storage[b].dailyQuestion
          => storage[b].dailyQuestionDate # Some(clock) ]_vars

\* C20: once an answer is stored for calendar date D, no step taken on date D
\* changes the stored answer or its date, and no view that shows the
\* challenge as completed turns answerable again on D.
C20_AnswerFixedForDate ==
  [][ clock' = clock =>
        /\ \A b \in DOMAIN storage :
             storage[b].dailyChallengeDate = Some(clock)
               => /\ storage'[b].dailyChallengeAnswer = storage[b].dailyChallengeAnswer
                  /\ storage'[b].dailyChallengeDate = storage[b].dailyChallengeDate
        /\ \A t \in DOMAIN view :
             (storage[BrowserOf(t)].dailyChallengeDate = Some(clock) /\ view'[t].game)
               => (view[t].game /\ view[t].submitted => view'[t].submitted) ]_vars

\* C20 with one tab per browser: a step taken on date D leaves the answer
\* stored for D alone.
Tabs(b) == {t \in DOMAIN view : BrowserOf(t) = b}
C20_OneTab ==
  [][ \A b \in DOMAIN storage :
        (Cardinality(Tabs(b)) = 1 /\ clock' = clock
           /\ storage[b].dailyChallengeDate = Some(clock))
          => storage'[b].dailyChallengeAnswer = storage[b].dailyChallengeAnswer ]_vars

\* C20 with one tab per browser: while an answer is stored for today the
\* mounted challenge shows it completed.
C20_OneTabReadOnly ==
  \A b \in DOMAIN storage : \A t \in Tabs(b) :
    (Cardinality(Tabs(b)) = 1 /\ view[t].game
       /\ storage[b].dailyChallengeDate = Some(clock))
      => view[t].submitted

\* C20, last part: a challenge view that is mounted on a date other than the
\* stored one is answerable.  (Violated: a view left mounted over midnight
\* still shows yesterday's answer as completed.)
C20_AnswerableOnNewDate ==
  \A t \in DOMAIN view :
    (view[t].game /\ storage[BrowserOf(t)].dailyChallengeDate # Some(clock))
      => ~view[t].submitted

(***************************************************************************)
(* GET /trivia/daily of both route variants                                *)
(*                                                                         *)
(* The handler shares the module-level client genAI with analyzeWithAI.    *)
(* res keeps the responses of the trivia requests of one process run.      *)
(***************************************************************************)
MaxTrivia == 2       \* trivia requests in one run

\* the fallback events: part_003 158-162 (with full stops), and the catch
\* blocks journal.js 272-276, part_003 196-200 (without)
GenericDotted == <<"story.", "years.", "journey.">>
GenericPlain == <<"story", "years", "journey">>

\* a reply object {event1?, event2?, event3?}
Events(e1, e2, e3) == [kind |-> "obj", events |-> <<e1, e2, e3>>]
Full == Events(Some("e1"), Some("e2"), Some("e3"))
Partial == Events(Some("e1"), Absent, Some(""))
TriviaTexts == {<<>>, <<Prose>>, <<JsonNull>>, <<Full>>, <<Partial>>, <<Prose, Full, Prose>>}
TriviaReplies == {Raise} \cup {[kind |-> "text", text |-> t] : t \in TriviaTexts}

\* [a, b, c].filter(Boolean) after x || ''
Filled(events) == SelectSeq(events, TruthyStr)
Strings(events) == [i \in 1..Len(events) |-> events[i][1]]

\* part_003 180-186: JSON.parse(text), else the embedded object, else {}
parsedTrivia(text) ==
  IF ParseOk(text) THEN text[1]
  ELSE IF Match(text) # <<>> /\ ParseOk(Match(text)) THEN Match(text)[1]
  ELSE Events(Absent, Absent, Absent)

\* does the handler reach generateContent?  journal.js 245 names `openai`,
\* which the module never defines: the ReferenceError is caught at 268
TriviaCalls(v, client) == v = "lazy" /\ client

\* the response: every path ends in res.json, status 200
triviaDaily(v, client, reply) ==
  IF v = "eager" THEN [status |-> 200, date |-> "locale", events |-> GenericPlain]
  ELSE IF ~client THEN [status |-> 200, date |-> "monthDay", events |-> GenericDotted]
  ELSE IF reply.kind = "raise"
  THEN [status |-> 200, date |-> "locale", events |-> GenericPlain]
  ELSE IF parsedTrivia(reply.text).kind = "null"     \* null.event1 throws
  THEN [status |-> 200, date |-> "locale", events |-> GenericPlain]
  ELSE [status |-> 200, date |-> "monthDay",
        events |-> Strings(Filled(parsedTrivia(reply.text).events))]

InitTrivia ==
  /\ variant \in {"eager", "lazy"}
  /\ apiKey \in BOOLEAN
  /\ genAI = (variant = "eager")
  /\ RoutesIdle
  /\ IdleFn
  /\ IdleClient

Runs == IF res = NoRes THEN <<>> ELSE res.runs

\* one GET /trivia/daily
Trivia(reply) ==
  /\ Len(Runs) < MaxTrivia
  /\ reply \in (IF TriviaCalls(variant, genAI) THEN TriviaReplies ELSE {Raise})
  /\ res' = [fn |-> "trivia",
             runs |-> Append(Runs, [client |-> genAI, reply |-> reply,
                                    called |-> TriviaCalls(variant, genAI),
                                    out |-> triviaDaily(variant, genAI, reply)])]
  /\ UNCHANGED <<routeVars, arg, clientVars>>

\* a journal create or update enters analyzeWithAI(content): part_003 23
Enrich(content) ==
  /\ arg' = <<content>>
  /\ genAI' = ClientAfter
  /\ UNCHANGED <<variant, apiKey, Journal, nextId, nreq, pending, prov, last, res, clientVars>>

NextTrivia ==
  \/ \E reply \in TriviaReplies : Trivia(reply)
  \/ \E content \in BodyContents : Enrich(content)

SpecTrivia == InitTrivia /\ [][NextTrivia]_vars

\* the reply is no JSON value and holds no JSON object
TriviaFailed(run) ==
  \/ ~run.client
  \/ run.reply.kind = "raise"
  \/ Undecodable(run.reply.text)

\* C21: the trivia operation always answers with a success, and when the
\* client is missing, the provider call raises or the reply cannot be
\* decoded, the events are the three fixed generic strings.
C21_TriviaFallback ==
  \A i \in 1..Len(Runs) :
    /\ Runs[i].out.status = 200
    /\ TriviaFailed(Runs[i]) => Runs[i].out.events \in {GenericDotted, GenericPlain}

\* C21, first half: no trivia request is answered with a failure.
C21_NeverFails ==
  \A i \in 1..Len(Runs) : Runs[i].out.status = 200

\* C29: with an API key configured, two trivia requests of one process run
\* agree on whether the provider is called, whatever happened between them.
C29_TriviaIgnoresHistory ==
  \A i, j \in 1..Len(Runs) : apiKey => Runs[i].called = Runs[j].called

(***************************************************************************)
(* Further properties of the journal routes                                *)
(***************************************************************************)

\* the error journal.save() of a PUT raised, from the step it left in `last`:
\* validation runs before the update is sent, and an update that matches no
\* document is a DocumentNotFoundError
SaveError(step, present) ==
  IF ~SaveValid(step.seen, Assigned(step.seen, step.req, step.ai)) THEN "ValidationError"
  ELSE IF ~present THEN "DocumentNotFoundError"
  ELSE "none"

PutWrote == last'.op = "put" /\ last'.phase = "write" /\ pending' # pending
DeleteWrote == last'.op = "delete" /\ last'.phase = "write" /\ pending' # pending

\* C22: when a delete and an update of one journal have both read it, the
\* order of the writes decides: the save that comes after the delete fails
\* with a missing-document error and stores nothing, the save that comes
\* before it is answered as a success and its document is removed by the
\* delete; a deleted journal is never stored again.
C22_RaceDecidedByOrder ==
  [][ /\ (PutWrote /\ last'.id \notin DOMAIN Journal)
           => /\ SaveError(last', FALSE) = "DocumentNotFoundError"
              /\ last'.status = 500
              /\ Journal' = Journal
      /\ (PutWrote /\ last'.id \in DOMAIN Journal
             /\ (\E r \in BagToSet(pending) : r.op = "delete" /\ r.id = last'.id))
           => last'.status = 200
      /\ DeleteWrote => last'.id \notin DOMAIN Journal'
      /\ \A id \in 1..(nextId - 1) :
           id \notin DOMAIN Journal => id \notin DOMAIN Journal' ]_vars

\* C22 apart from the error kind and the validation of the save: the save
\* after the delete is answered with 500 and stores nothing, the delete
\* removes what a save before it stored, a deleted journal never returns.
C22_RaceStoreEffect ==
  [][ /\ (PutWrote /\ last'.id \notin DOMAIN Journal)
           => (last'.status = 500 /\ Journal' = Journal)
      /\ (PutWrote /\ last'.id \in DOMAIN Journal)
           => (last'.status = 200 <=> SaveError(last', TRUE) = "none")
      /\ DeleteWrote => last'.id \notin DOMAIN Journal'
      /\ \A id \in 1..(nextId - 1) :
           id \notin DOMAIN Journal => id \notin DOMAIN Journal' ]_vars

\* C25: no step changes the owner or createdAt of a journal that stays in the
\* store, a saved update is answered under the id and owner it was read with,
\* and a journal enters the store only by a create, under a fresh id, owned by
\* the user of the create request.
C25_OwnerIdCreatedAtFixed ==
  [][ /\ \A id \in DOMAIN Journal \cap DOMAIN Journal' :
           /\ Journal'[id].user = Journal[id].user
           /\ Journal'[id].createdAt = Journal[id].createdAt
      /\ (PutWrote /\ last'.status = 200)
           => last'.body = {[id |-> last'.id, user |-> Journal[last'.id].user]}
      /\ \A id \in DOMAIN Journal' \ DOMAIN Journal :
           /\ last'.op = "create" /\ last'.id = id
           /\ id = nextId
           /\ Journal'[id].user = last'.user ]_vars

\* an update has been saved with a new title and a new content
C25_Witness ==
  /\ last.op = "put" /\ last.phase = "write" /\ last.status = 200
  /\ last.req.title = Some("t2") /\ last.req.content = Some(" ")
  /\ last.id \in DOMAIN Journal
  /\ Journal[last.id].title = "t2" /\ Journal[last.id].content = " "
  /\ Journal[last.id].user = "u1" /\ Journal[last.id].createdAt = 1

(***************************************************************************)
(* GET /api/journals over a collection of several journals                 *)
(***************************************************************************)
MaxListed == 3       \* journals in the collection

\* the creation times of the stored journals; two may be equal
ListTimes == 1..3

\* what the response shows of a document
Listed(id) == [id |-> id, user |-> Journal[id].user, createdAt |-> Journal[id].createdAt]

\* the orders a descending sort by key may return the documents S in: each
\* next document is one of those with the largest key among the remaining
RECURSIVE Orders(_, _)
Orders(S, key) ==
  IF S = {} THEN {<<>>}
  ELSE UNION {{<<id>> \o o : o \in Orders(S \ {id}, key)} :
                id \in {i \in S : \A j \in S : key[i] >= key[j]}}

\* variant of listJournals: sort({ createdAt: 1 })
listJournalsOldestFirst(u) ==
  {[k \in DOMAIN o |-> Listed(o[k])] :
     o \in Orders(Owned(u), [i \in DOMAIN Journal |-> 0 - Journal[i].createdAt])}

\* journal.js 38-40: Journal.find({ user }).sort({ createdAt: -1 }); the order
\* of documents with equal createdAt is the store's choice
listJournals(u) ==
  {[k \in DOMAIN o |-> Listed(o[k])] :
     o \in Orders(Owned(u), [i \in DOMAIN Journal |-> Journal[i].createdAt])}

InitList ==
  /\ variant \in {"eager", "lazy"}
  /\ apiKey = FALSE
  /\ genAI = (variant = "eager")
  /\ \E n \in 0..MaxListed :
       /\ nextId = n + 1
       /\ Journal \in [1..n -> {StatDoc(u, "neutral", t) : u \in Users, t \in ListTimes}]
  /\ prov = <<>> /\ nreq = 0 /\ pending = EmptyBag /\ last = NoStep
  /\ IdleFn
  /\ IdleClient

\* router.get('/')
ListJournals(u) ==
  /\ res = NoRes
  /\ \E out \in listJournals(u) : res' = [fn |-> "list", user |-> u, out |-> out]
  /\ UNCHANGED <<routeVars, arg, clientVars>>

NextList == \E u \in Users : ListJournals(u)

SpecList == InitList /\ [][NextList]_vars

\* C26: the list holds exactly the stored journals of the acting user, each
\* once, from the most recent createdAt to the oldest.
C26_ListOwnedNewestFirst ==
  res # NoRes =>
    /\ {res.out[k].id : k \in DOMAIN res.out} = {i \in DOMAIN Journal : Journal[i].user = res.user}
    /\ \A j, k \in DOMAIN res.out :
         /\ res.out[j].id = res.out[k].id => j = k
         /\ j < k => res.out[j].createdAt >= res.out[k].createdAt
    /\ \A k \in DOMAIN res.out :
         /\ res.out[k].user = res.user
         /\ res.out[k].createdAt = Journal[res.out[k].id].createdAt

\* the caller's older journal was stored after the newer one, and another
\* user's journal lies between them
C26_Witness ==
  /\ res # NoRes /\ res.user = "u1"
  /\ DOMAIN Journal = 1..3
  /\ Journal[1].user = "u1" /\ Journal[1].createdAt = 3
  /\ Journal[2].user = "u2"
  /\ Journal[3].user = "u1" /\ Journal[3].createdAt = 1
  /\ Len(res.out) = 2 /\ res.out[1].id = 1 /\ res.out[2].id = 3

(***************************************************************************)
(* The journal list of the web client (AppProvider) against the server     *)
(*                                                                         *)
(* One logged-in tab of user u1.  A client operation is two steps: the     *)
(* call, in which the server handles the request, and the continuation     *)
(* after the await, which runs with the `journals` of the render the       *)
(* operation was started in.  Here view is the AppProvider state and        *)
(* pending holds the operations awaiting their response.  createdAt is a   *)
(* calendar day, 0 is today.                                               *)
(***************************************************************************)
MaxCalls == 3        \* client operations started in one run
MaxKept == 3         \* journals the server holds at the start

AppDays == (0 - 2)..0
NoChange == [kind |-> "none", at |-> 0]

\* the JSON of a stored journal
Json(id) == [id |-> id, createdAt |-> Journal[id].createdAt, mood |-> Journal[id].mood]

DaysOf(js) == [k \in DOMAIN js |-> js[k].createdAt]
MoodsOf(js) == {js[k].mood : k \in DOMAIN js}
IdsOf(js) == {js[k].id : k \in DOMAIN js}

\* App.jsx 128-133: the effect that follows setJournals(js) from state st;
\* calculateAchievements reads the streak of the render the effect belongs
\* to, which setStreak has not replaced yet
JournalsEffect(js, st) ==
  IF Len(js) > 0
  THEN [journals |-> js,
        streak |-> calculateStreak(NoChange, DaysOf(js)),
        achievements |-> calculateAchievements(Len(js), st.streak, MoodsOf(js))]
  ELSE [st EXCEPT !.journals = js]

\* a freshly mounted AppProvider (App.jsx 104-113) over a server that holds
\* up to MaxKept journals of the user
InitApp ==
  /\ variant = "eager" /\ apiKey = FALSE /\ genAI = TRUE
  /\ \E n \in 0..MaxKept :
       /\ nextId = n + 1
       /\ Journal \in [1..n -> {StatDoc("u1", "neutral", d) : d \in AppDays}]
  /\ prov = <<>> /\ nreq = 0 /\ pending = EmptyBag /\ last = NoStep
  /\ IdleFn
  /\ clock = 0 /\ storage = <<>>
  /\ view = [journals |-> <<>>, streak |-> 0, achievements |-> <<>>]

\* an operation is started: its request is handled and awaits its continuation
Await(op, id, data) ==
  /\ nreq < MaxCalls
  /\ nreq' = nreq + 1
  /\ pending' = pending (+) SetToBag({[op |-> op, id |-> id, base |-> view.journals,
                                       data |-> data,
                                       synced |-> IdsOf(view.journals) = DOMAIN Journal]})
  /\ UNCHANGED <<variant, apiKey, genAI, prov, last, fnVars, clientVars>>

\* App.jsx 260-269 up to its await: GET /api/journals
loadJournalsCall ==
  /\ \E out \in listJournals("u1") :
       Await("load", 0, Some([k \in DOMAIN out |-> Json(out[k].id)]))
  /\ UNCHANGED <<Journal, nextId>>

\* App.jsx 271-285 up to its await: POST /api/journals; the server stores the
\* journal and answers with it, or answers with a message
createJournalCall(accepted) ==
  /\ IF accepted
     THEN /\ Journal' = Journal @@ (nextId :> StatDoc("u1", "neutral", 0))
          /\ nextId' = nextId + 1
          /\ Await("create", nextId, Some([id |-> nextId, createdAt |-> 0, mood |-> "neutral"]))
     ELSE /\ Await("create", 0, Absent)
          /\ UNCHANGED <<Journal, nextId>>

\* App.jsx 287-301 up to its await: PUT /api/journals/:id of a listed journal
updateJournalCall(id) ==
  /\ id \in IdsOf(view.journals)
  /\ IF id \in DOMAIN Journal
     THEN /\ Journal' = [Journal EXCEPT ![id].mood = "happy", ![id].aiMood = "happy"]
          /\ Await("update", id, Some([Json(id) EXCEPT !.mood = "happy"]))
     ELSE /\ Await("update", id, Absent)
          /\ UNCHANGED Journal
  /\ UNCHANGED nextId

\* App.jsx 303-311 up to its await: DELETE /api/journals/:id of a listed
\* journal; the server deletes it, or answers 404, or fails (500)
deleteJournalCall(id, fails) ==
  /\ id \in IdsOf(view.journals)
  /\ Journal' = IF id \in DOMAIN Journal /\ ~fails THEN Remove(Journal, id) ELSE Journal
  /\ Await("delete", id, Absent)
  /\ UNCHANGED nextId

\* the journals array the continuation of r passes to setJournals
Continued(r) ==
  IF r.op = "load" THEN r.data[1]
  ELSE IF r.op = "create"
       THEN (IF r.data # Absent THEN <<r.data[1]>> \o r.base ELSE view.journals)
  ELSE IF r.op = "update"
       THEN (IF r.data # Absent
             THEN [k \in DOMAIN r.base |-> IF r.base[k].id = r.id THEN r.data[1] ELSE r.base[k]]
             ELSE view.journals)
  ELSE SelectSeq(r.base, LAMBDA j : j.id # r.id)

\* does the continuation of r call setJournals?
Sets(r) == r.op \in {"load", "delete"} \/ r.data # Absent

\* the response arrives: the code after the await, and the effect on [journals]
Settle(r) ==
  /\ r \in BagToSet(pending)
  /\ pending' = pending (-) SetToBag({r})
  /\ view' = IF Sets(r) THEN JournalsEffect(Continued(r), view) ELSE view
  /\ UNCHANGED <<variant, apiKey, genAI, Journal, nextId, nreq, prov, last, fnVars,
                 clock, storage>>

NextApp ==
  \/ loadJournalsCall
  \/ \E accepted \in BOOLEAN : createJournalCall(accepted)
  \/ \E id \in 1..(MaxKept + MaxCalls) : updateJournalCall(id)
  \/ \E id \in 1..(MaxKept + MaxCalls), fails \in BOOLEAN : deleteJournalCall(id, fails)
  \/ \E r \in BagToSet(pending) : Settle(r)

SpecApp == InitApp /\ [][NextApp]_vars

(***************************************************************************)
(* Further properties of the web client                                    *)
(***************************************************************************)

\* C30: a challenge view that mounts as completed shows an answer that the
\* user of its own session submitted: after A answered on date D and logged
\* out, B logging in on the same browser on D finds the challenge unanswered.
\* (Stated for a browser with one tab.)
C30_AnswerSeenByItsUserOnly ==
  [][ \A t \in DOMAIN view :
        (/\ Cardinality(Tabs(BrowserOf(t))) = 1
         /\ ~view[t].game /\ view'[t].game /\ view'[t].submitted)
          => storage[BrowserOf(t)].answeredBy = view[t].token ]_vars

\* the streak of the journals the client lists
ListStreak == calculateStreak(NoChange, DaysOf(view.journals))

\* every operation started has run its continuation
Settled == nreq > 0 /\ pending = EmptyBag

\* C23: once the client's operations have settled, the displayed streak and
\* achievement list are the ones derived from the current journal list; with
\* an empty list the streak is 0 and no achievement is listed.
C23_DerivedFromJournals ==
  Settled =>
    /\ view.streak = ListStreak
    /\ view.achievements =
         calculateAchievements(Len(view.journals), ListStreak, MoodsOf(view.journals))

\* C23, the case of the last journal deleted: with an empty list the streak
\* is 0 and the achievement list is empty.
C23_EmptyListShowsNothing ==
  (Settled /\ view.journals = <<>>) => (view.streak = 0 /\ view.achievements = <<>>)

\* the names in the achievement list
Names(a) == {a[k] : k \in DOMAIN a}

\* C24: after the journal-change effect ran for a list, each streak
\* achievement is listed exactly when the streak of that list reaches its
\* threshold.
C24_StreakAchievements ==
  Len(view.journals) > 0 =>
    /\ "3 Day Streak" \in Names(view.achievements) <=> ListStreak >= 3
    /\ "Week Warrior" \in Names(view.achievements) <=> ListStreak >= 7
    /\ "Monthly Legend" \in Names(view.achievements) <=> ListStreak >= 30

\* C27: when a create, update or delete that was started on a list in step
\* with the server completes and no other operation is under way, the client
\* lists a journal exactly when the server stores it.
C27_ListMatchesServer ==
  [][ \A r \in BagToSet(pending) :
        (/\ pending' = EmptyBag
         /\ r.op \in {"create", "update", "delete"}
         /\ r.synced)
          => IdsOf(view'.journals) = DOMAIN Journal' ]_vars

(***************************************************************************)
(* Further properties of the streak                                        *)
(***************************************************************************)

\* the entry lists of the streak specification
EntryLists == UNION {[1..n -> Days] : n \in 0..MaxEntries}

\* no entry today, the most recent entry yesterday
LastYesterday(days) == Len(days) > 0 /\ Recent(days) = 0 - 1

\* C28: there is an entry list with no entry today and the most recent entry
\* yesterday for which one of the two server implementations returns 0 and
\* the other a nonzero streak.  (Looked for, once a streak request has been
\* answered, among all entry lists and clocks of the model.)
C28_DisagreeOnToday ==
  res # NoRes =>
    \E days \in EntryLists, tz \in Clocks :
      /\ LastYesterday(days)
      /\ (streakEager(tz, days) = 0) # (streakLazy(tz, days) = 0)

\* C28 as the code has it: for every entry list with no entry today and the
\* most recent entry yesterday, both server implementations return a nonzero
\* streak; neither requires an entry today.
C28_BothCountFromYesterday ==
  (/\ res # NoRes /\ res.fn \in {"streakEager", "streakLazy"}
   /\ LastYesterday(arg.days))
    => /\ res.out > 0
       /\ streakEager(arg.tz, arg.days) > 0
       /\ streakLazy(arg.tz, arg.days) > 0

\* the cursor implementation ran on entries of yesterday and the day before
C28_Witness ==
  /\ res # NoRes /\ res.fn = "streakLazy"
  /\ arg.days = <<0 - 2, 0 - 1>> /\ arg.tz.kind = "none"
  /\ res.out = 2 /\ streakEager(arg.tz, arg.days) = 2

====
